---- MODULE Spec2Model ----
(***************************************************************************)
(* Faculty Evaluation Dashboard (evaluation.py): objective scoring,        *)
(* manual marking and the grand-total aggregation over a student's test    *)
(* documents kept in the "student_responses" collection.                   *)
(*                                                                         *)
(* Text values are sequences of one-character strings, so that str(),      *)
(* strip(), lower() and int() are modelled by what they do.                *)
(***************************************************************************)
EXTENDS Integers, Sequences, FiniteSets, TLC

\* ------------------------------------------------------------------------
\* Bounds of the model
\* ------------------------------------------------------------------------
MaxStrLen == 2
MaxResp == 2
MaxDocs == 3
MaxSaves == 2
MaxReadFailures == 1
MaxQidLen == 3

\* ------------------------------------------------------------------------
\* Python values: a text, an integer, None, or pandas' NaN
\* ------------------------------------------------------------------------
StrV(s) == [t |-> "str", s |-> s, n |-> 0]

IntV(n) == [t |-> "int", s |-> <<>>, n |-> n]

NoneV == [t |-> "none", s |-> <<>>, n |-> 0]

NaNV == [t |-> "nan", s |-> <<>>, n |-> 0]

WhiteSpace == {" "}

DigitChars == <<"0", "1", "2", "3", "4", "5", "6", "7", "8", "9">>

IsDigit(c) == \E i \in 1..10 : DigitChars[i] = c

DigitVal(c) == (CHOOSE i \in 1..10 : DigitChars[i] = c) - 1

RECURSIVE NatToStr(_)
NatToStr(n) == IF n < 10 THEN <<DigitChars[n + 1]>>
               ELSE NatToStr(n \div 10) \o <<DigitChars[(n % 10) + 1]>>

\* str(v)
PyStr(v) == CASE v.t = "str" -> v.s
              [] v.t = "int" -> IF v.n < 0 THEN <<"-">> \o NatToStr(0 - v.n) ELSE NatToStr(v.n)
              [] v.t = "none" -> <<"N", "o", "n", "e">>
              [] OTHER -> <<"n", "a", "n">>

RECURSIVE LStrip(_)
LStrip(s) == IF s # <<>> /\ Head(s) \in WhiteSpace THEN LStrip(Tail(s)) ELSE s

RECURSIVE RStrip(_)
RStrip(s) == IF s # <<>> /\ s[Len(s)] \in WhiteSpace THEN RStrip(SubSeq(s, 1, Len(s) - 1)) ELSE s

\* str.strip()
Strip(s) == RStrip(LStrip(s))

LowerChar(c) == CASE c = "A" -> "a"
                  [] c = "B" -> "b"
                  [] c = "Q" -> "q"
                  [] c = "M" -> "m"
                  [] c = "C" -> "c"
                  [] c = "L" -> "l"
                  [] OTHER -> c

\* str.lower()
Lower(s) == [i \in 1..Len(s) |-> LowerChar(s[i])]

RECURSIVE DigitsVal(_)
DigitsVal(s) == IF s = <<>> THEN 0 ELSE 10 * DigitsVal(SubSeq(s, 1, Len(s) - 1)) + DigitVal(s[Len(s)])

AllDigits(s) == s # <<>> /\ \A i \in 1..Len(s) : IsDigit(s[i])

\* int(text): surrounding whitespace and one sign are accepted, then digits
ParseIntStr(s) ==
    LET b == Strip(s)
        signed == b # <<>> /\ Head(b) \in {"-", "+"}
        body == IF signed THEN Tail(b) ELSE b
    IN IF AllDigits(body)
       THEN [ok |-> TRUE, val |-> IF signed /\ Head(b) = "-" THEN 0 - DigitsVal(body) ELSE DigitsVal(body)]
       ELSE [ok |-> FALSE, val |-> 0]

\* int(v): raises (ok = FALSE) on None and on a text that is not an integer
PyInt(v) == CASE v.t = "int" -> [ok |-> TRUE, val |-> v.n]
              [] v.t = "str" -> ParseIntStr(v.s)
              [] OTHER -> [ok |-> FALSE, val |-> 0]

\* dict.get(key, default)
DictGet(d, key, default) == IF key \in DOMAIN d THEN d[key] ELSE default

Max(a, b) == IF a >= b THEN a ELSE b

Min(a, b) == IF a <= b THEN a ELSE b

\* ------------------------------------------------------------------------
\* Question banks: a DataFrame is a sequence of rows
\* ------------------------------------------------------------------------
AnswerColumns == <<"Answer", "Correct", "CorrectAnswer", "Ans", "AnswerKey", "RightAnswer">>

\* get_correct_answer(row): first column present and not NaN, as stripped text
get_correct_answer(row) ==
    LET hits == {i \in 1..Len(AnswerColumns) :
                    AnswerColumns[i] \in DOMAIN row.ans /\ row.ans[AnswerColumns[i]].t # "nan"}
    IN IF hits = {} THEN NoneV
       ELSE LET i == CHOOSE j \in hits : \A k \in hits : j <= k
            IN StrV(Strip(PyStr(row.ans[AnswerColumns[i]])))

\* df[df["QuestionID"].astype(str) == qid]
MatchRows(df, qid) == SelectSeq(df, LAMBDA row : PyStr(row.QuestionID) = qid)

McqCreditStrict(df, r) ==
    LET qid == PyStr(DictGet(r, "QuestionID", NoneV))
        ans == PyStr(DictGet(r, "Response", StrV(<<>>)))
        match == MatchRows(df, qid)
    IN IF match = <<>> THEN 0
       ELSE IF Lower(match[1].Type) # <<"m", "c", "q">> THEN 0
       ELSE LET correct == get_correct_answer(match[1])
            IN IF correct.t # "none" /\ ans = correct.s THEN 1 ELSE 0

\* body of the loop of calc_mcq for one response
McqCredit(df, r) ==
    LET qid == PyStr(DictGet(r, "QuestionID", NoneV))
        ans == Strip(PyStr(DictGet(r, "Response", StrV(<<>>))))
        match == MatchRows(df, qid)
    IN IF match = <<>> THEN 0
       ELSE IF Lower(match[1].Type) # <<"m", "c", "q">> THEN 0
       ELSE LET correct == get_correct_answer(match[1])
            IN IF correct.t # "none" /\ ans = correct.s THEN 1 ELSE 0

\* the loop of calc_mcq over the responses
RECURSIVE McqTotal(_, _)
McqTotal(df, responses) ==
    IF responses = <<>> THEN 0
    ELSE McqCredit(df, Head(responses)) + McqTotal(df, Tail(responses))

calc_mcq(df, responses) == IF df = <<>> THEN 0 ELSE McqTotal(df, responses)

LikertScoreCapped(val) == IF val >= 5 THEN 3 ELSE Max(0, Min(4, val - 1))

\* max(0, min(4, val - 1))
LikertScore(val) == Max(0, Min(4, val - 1))

\* body of the loop of calc_likert for one response
LikertCredit(df, r) ==
    LET qid == PyStr(DictGet(r, "QuestionID", NoneV))
        parsed == PyInt(DictGet(r, "Response", IntV(0)))
        match == MatchRows(df, qid)
    IN IF ~parsed.ok THEN 0
       ELSE IF match = <<>> THEN 0
       ELSE IF Lower(match[1].Type) # <<"l", "i", "k", "e", "r", "t">> THEN 0
       ELSE LikertScore(parsed.val)

\* the loop of calc_likert over the responses
RECURSIVE LikertTotal(_, _)
LikertTotal(df, responses) ==
    IF responses = <<>> THEN 0
    ELSE LikertCredit(df, Head(responses)) + LikertTotal(df, Tail(responses))

calc_likert(df, responses) == IF df = <<>> THEN 0 ELSE LikertTotal(df, responses)

\* ------------------------------------------------------------------------
\* Question identifiers and award scales
\* ------------------------------------------------------------------------
FOUR_MARK_QIDS == {12, 13, 14, 16, 17, 18}

THREE_MARK_QIDS == {22, 23, 24, 25, 28, 29, 30, 34}

parse_int_qid_upper_only(qid_val) ==
    LET s0 == Strip(qid_val)
        s1 == IF s0 # <<>> /\ s0[1] = "Q" THEN Tail(s0) ELSE s0
        p == ParseIntStr(s1)
    IN IF p.ok THEN p.val ELSE 0 - 1

\* parse_int_qid: strip, drop one leading "q"/"Q", int() or -1
parse_int_qid(qid_val) ==
    LET s0 == Strip(qid_val)
        s1 == IF s0 # <<>> /\ Lower(s0)[1] = "q" THEN Tail(s0) ELSE s0
        p == ParseIntStr(s1)
    IN IF p.ok THEN p.val ELSE 0 - 1

get_text_scale(qid_val) ==
    LET qid_int == parse_int_qid(qid_val)
    IN IF qid_int \in FOUR_MARK_QIDS THEN <<0, 1, 2, 3>>
       ELSE IF qid_int \in THREE_MARK_QIDS THEN <<0, 1, 2>>
       ELSE <<0, 1>>

SeqRange(s) == {s[i] : i \in 1..Len(s)}

\* ------------------------------------------------------------------------
\* The document store: collection "student_responses"
\* ------------------------------------------------------------------------
AUTO_TESTS == <<"Adaptability & Learning", "Communication Skills - Objective">>

MANUAL_TESTS == <<"Aptitude Test", "Communication Skills - Descriptive">>

Sections == SeqRange(AUTO_TESTS) \cup SeqRange(MANUAL_TESTS)

Rolls == {"R1", "R2"}

EmptyMap == [x \in {} |-> 0]

\* what snap.to_dict() or {} gives for a missing document or a failed read
EmptyData == [exists |-> FALSE, Roll |-> "", Section |-> "", Responses |-> <<>>, Evaluation |-> EmptyMap]

\* document identifiers, in the order in which stream() yields them
DocUniverse ==
    << [Roll |-> "R1", Section |-> "Aptitude Test"],
       [Roll |-> "R1", Section |-> "Adaptability & Learning"],
       [Roll |-> "R1", Section |-> "Communication Skills - Descriptive"],
       [Roll |-> "R2", Section |-> "Adaptability & Learning"] >>

DocIds == 1..Len(DocUniverse)

Q1 == <<"Q", "1">>

Q2 == <<"Q", "2">>

Q13 == <<"Q", "1", "3">>

Q22 == <<"Q", "2", "2">>

Row(qid, type, ans) == [QuestionID |-> StrV(qid), Type |-> type, ans |-> ans]

TMcq == <<"m", "c", "q">>

TLikert == <<"l", "i", "k", "e", "r", "t">>

TShort == <<"s", "h", "o", "r", "t">>

\* the question banks as load_question_banks leaves them (Type stripped and lower-cased)
LoadedBanks ==
    [sec \in Sections |->
        CASE sec = "Aptitude Test" ->
               << Row(Q1, TMcq, [c \in {"Answer"} |-> StrV(<<"A">>)]), Row(Q13, TShort, EmptyMap) >>
          [] sec = "Adaptability & Learning" ->
               << Row(Q1, TLikert, EmptyMap) >>
          [] sec = "Communication Skills - Objective" ->
               << Row(Q1, TMcq, [c \in {"Answer", "Correct"} |-> IF c = "Answer" THEN NaNV ELSE StrV(<<"B">>)]) >>
          [] OTHER ->
               << Row(Q22, TShort, EmptyMap) >>]

Resp(qid, v) == [k \in {"QuestionID", "Response"} |-> IF k = "QuestionID" THEN StrV(qid) ELSE v]

\* the answer sheets a student may submit for a test
SubmittedResponses(sec) ==
    CASE sec = "Aptitude Test" -> { << Resp(Q1, StrV(<<"A">>)), Resp(Q13, StrV(<<"x">>)) >> }
      [] sec = "Adaptability & Learning" -> { << Resp(Q1, IntV(4)) >> }
      [] sec = "Communication Skills - Objective" -> { << Resp(Q1, StrV(<<"B">>)) >> }
      [] OTHER -> { << Resp(Q22, StrV(<<"x">>)) >> }

\* an Evaluation block left by an earlier writer, with a mark outside the scale
LegacyEvaluation ==
    [f \in {"text_marks", "text_total"} |->
        IF f = "text_marks" THEN [q \in {Q13} |-> 4] ELSE 4]

InitialEvaluations(d) == IF d = 1 THEN {EmptyMap, LegacyEvaluation} ELSE {EmptyMap}

VARIABLES
    question_banks,   \* section -> DataFrame, as cached by load_question_banks
    store,            \* doc_id -> document data of "student_responses"
    student_map,      \* the value cached by load_student_map, once loaded
    saves,            \* number of script runs with the button pressed so far
    sess,             \* the script run of each browser session: position and locals
    score_in,         \* a question bank and a list of responses handed to the scorers
    scored,           \* what calc_mcq and calc_likert returned for score_in
    qid_in,           \* a question identifier handed to get_text_scale
    scale_out,        \* the scale get_text_scale returned for qid_in
    result            \* what the last script run with the button pressed reported

RECURSIVE SumSeq(_)
SumSeq(s) == IF s = <<>> THEN 0 ELSE Head(s) + SumSeq(Tail(s))

AllDocIds == [i \in DocIds |-> i]

\* load_student_map: roll -> {docs: [(section, doc_id)], evaluated}
load_student_map(st) ==
    LET listed == {d \in DocIds : st[d].exists /\ st[d].Roll # "" /\ st[d].Section # ""}
        rolls == {st[d].Roll : d \in listed}
        ids(roll) == SelectSeq(AllDocIds, LAMBDA d : d \in listed /\ st[d].Roll = roll)
    IN [roll \in rolls |->
           [docs |-> [i \in 1..Len(ids(roll)) |-> <<st[ids(roll)[i]].Section, ids(roll)[i]>>],
            evaluated |-> \E d \in listed : st[d].Roll = roll /\ "grand_total" \in DOMAIN st[d].Evaluation]]

\* snap.to_dict() or {}
ToDict(st, doc_id) == IF st[doc_id].exists THEN st[doc_id] ELSE EmptyData

\* manual_meta: section -> doc_id, for the manual tests the student has
ManualMeta(docs) ==
    LET secs == {docs[i][1] : i \in 1..Len(docs)} \cap SeqRange(MANUAL_TESTS)
    IN [sec \in secs |->
           docs[CHOOSE i \in 1..Len(docs) :
                   /\ docs[i][1] = sec
                   /\ \A j \in 1..Len(docs) : docs[j][1] = sec => j <= i][2]]

\* short_df: the identifiers of the rows whose Type is "short"
ShortQids(df) ==
    LET rows == SelectSeq(df, LAMBDA row : row.Type = TShort)
    IN [i \in 1..Len(rows) |-> PyStr(rows[i].QuestionID)]

IndexOf(scale, v) == CHOOSE i \in 1..Len(scale) : scale[i] = v

MarkOfVerbatim(qid, saved_text_marks, pick) ==
    LET scale == get_text_scale(qid)
    IN IF pick = 0 THEN DictGet(saved_text_marks, qid, 0) ELSE scale[pick]

\* the mark the radio of one question returns: the faculty's pick on the
\* scale, or the default (the saved mark, 0 if that is not on the scale)
MarkOf(qid, saved_text_marks, pick) ==
    LET scale == get_text_scale(qid)
        saved == DictGet(saved_text_marks, qid, 0)
        default_mark == IF saved \in SeqRange(scale) THEN saved ELSE 0
        default_index == IndexOf(scale, default_mark)
    IN IF pick = 0 THEN scale[default_index] ELSE scale[pick]

\* the picks the faculty can make on the radios of a test
Picks(qids) == {p \in [SeqRange(qids) -> 0..4] : \A q \in SeqRange(qids) : p[q] <= Len(get_text_scale(q))}

MarksGiven(qids, saved_text_marks, picks) ==
    [q \in SeqRange(qids) |-> MarkOf(q, saved_text_marks, picks[q])]

TextTotalCurrent(qids, marks_given) == SumSeq([i \in 1..Len(qids) |-> marks_given[qids[i]]])

\* compute_auto_scores_for_roll, given what each re-read returned
AutoScores(banks, docs, reread) ==
    [d \in {docs[i][2] : i \in 1..Len(docs)} |->
        LET i == CHOOSE j \in 1..Len(docs) : docs[j][2] = d
            df == banks[docs[i][1]]
        IN [mcq |-> calc_mcq(df, reread[d].Responses),
            likert |-> calc_likert(df, reread[d].Responses)]]

\* what a document other than the selected one adds to grand_total
SiblingTotal(doc_scores, data) ==
    doc_scores.mcq + doc_scores.likert + DictGet(data.Evaluation, "text_total", 0)

\* the grand_total loop over docs_for_student
GrandTotal(docs, doc_scores, doc_data_map, selected_test, text_total_current) ==
    SumSeq([i \in 1..Len(docs) |->
              IF docs[i][1] = selected_test
              THEN doc_scores[docs[i][2]].mcq + doc_scores[docs[i][2]].likert + text_total_current
              ELSE SiblingTotal(doc_scores[docs[i][2]], doc_data_map[docs[i][2]])])

\* Firestore's merge of a partial Evaluation block into the stored one
MergeEval(old, new) ==
    [f \in DOMAIN old \cup DOMAIN new |->
        IF f \notin DOMAIN new THEN old[f]
        ELSE IF f = "text_marks" /\ f \in DOMAIN old /\ DOMAIN new[f] # {}
             THEN [q \in DOMAIN old[f] \cup DOMAIN new[f] |->
                      IF q \in DOMAIN new[f] THEN new[f][q] ELSE old[f][q]]
             ELSE new[f]]

SetOverwrite(data, partial) == [EmptyData EXCEPT !.exists = TRUE, !.Evaluation = partial]

\* document(doc_id).set({"Evaluation": partial}, merge=True)
SetMerge(data, partial) == [data EXCEPT !.exists = TRUE, !.Evaluation = MergeEval(@, partial)]

\* the record written to the selected document
OwnRecord(marks_given, text_total_current, scores, grand_total) ==
    [f \in {"text_marks", "text_total", "mcq_total", "likert_total", "final_total", "grand_total"} |->
        CASE f = "text_marks" -> marks_given
          [] f = "text_total" -> text_total_current
          [] f = "mcq_total" -> scores.mcq
          [] f = "likert_total" -> scores.likert
          [] f = "final_total" -> scores.mcq + scores.likert + text_total_current
          [] OTHER -> grand_total]

GrandOnly(grand_total) == [f \in {"grand_total"} |-> grand_total]

\* the propagation loop: the documents before position upto, the selected one excepted
RECURSIVE Propagate(_, _, _, _, _)
Propagate(st, docs, selected_doc_id, grand_total, upto) ==
    IF upto = 0 THEN st
    ELSE LET prev == Propagate(st, docs, selected_doc_id, grand_total, upto - 1)
             d == docs[upto][2]
         IN IF d = selected_doc_id THEN prev
            ELSE [prev EXCEPT ![d] = SetMerge(@, GrandOnly(grand_total))]

vars == <<question_banks, store, student_map, result, saves, sess, score_in, scored, qid_in, scale_out>>

Sessions == {"s1", "s2"}

IdleSession == [pc |-> "idle", roll |-> "", test |-> "", doc_id |-> 0, docs |-> <<>>, i |-> 0,
                picks |-> EmptyMap, doc_data_map |-> EmptyMap, reread |-> EmptyMap,
                final_total |-> 0, grand_total |-> 0, own |-> EmptyMap]

NoScoreInput == [df |-> <<>>, responses |-> <<>>]

Scores(df, responses) == [mcq |-> calc_mcq(df, responses), likert |-> calc_likert(df, responses)]

NoFail == [kind |-> "none", at |-> 0]

IdleResult == [status |-> "idle", roll |-> "", test |-> "", doc_id |-> 0,
               fail |-> NoFail, auto_failed |-> {}, saved_text_marks |-> EmptyMap, grand_total |-> 0]

NotLoaded == [loaded |-> FALSE, map |-> EmptyMap]

Init ==
    /\ question_banks = LoadedBanks
    /\ store = [d \in DocIds |-> EmptyData]
    /\ student_map = NotLoaded
    /\ result = IdleResult
    /\ saves = 0
    /\ sess = [s \in Sessions |-> IdleSession]
    /\ score_in = NoScoreInput
    /\ scored = Scores(<<>>, <<>>)
    /\ qid_in = <<>>
    /\ scale_out = get_text_scale(<<>>)

\* a student's answer sheet for one test appears in the collection
AddDoc ==
    \E d \in DocIds :
        /\ ~store[d].exists
        /\ Cardinality({e \in DocIds : store[e].exists}) < MaxDocs
        /\ \E responses \in SubmittedResponses(DocUniverse[d].Section),
              evaluation \in InitialEvaluations(d) :
               store' = [store EXCEPT ![d] = [exists |-> TRUE,
                                              Roll |-> DocUniverse[d].Roll,
                                              Section |-> DocUniverse[d].Section,
                                              Responses |-> responses,
                                              Evaluation |-> evaluation]]
        /\ UNCHANGED <<question_banks, student_map, result, saves, sess, score_in, scored, qid_in, scale_out>>

\* the first script run of the process fills the cache of load_student_map
LoadStudentMap ==
    /\ ~student_map.loaded
    /\ student_map' = [loaded |-> TRUE, map |-> load_student_map(store)]
    /\ UNCHANGED <<question_banks, store, result, saves, sess, score_in, scored, qid_in, scale_out>>

DocIdsOf(docs) == {docs[i][2] : i \in 1..Len(docs)}

\* the documents whose re-read in compute_auto_scores_for_roll raises
ReadFailures(docs) == {F \in SUBSET DocIdsOf(docs) : Cardinality(F) <= MaxReadFailures}

\* where a store call of one script run may raise
Fails(docs, selected_doc_id) ==
    {NoFail}
    \cup {[kind |-> "prefetch", at |-> i] : i \in 1..Len(docs)}
    \cup {[kind |-> "own_write", at |-> 0]}
    \cup {[kind |-> "sibling_write", at |-> i] : i \in {j \in 1..Len(docs) : docs[j][2] # selected_doc_id}}

StoreAfterSaveSwallowed(st, docs, selected_doc_id, own, grand_total, fail) ==
    LET written == [st EXCEPT ![selected_doc_id] = SetMerge(@, own)]
    IN CASE fail.kind = "own_write" -> Propagate(st, docs, selected_doc_id, grand_total, Len(docs))
         [] fail.kind = "sibling_write" -> Propagate(written, docs, selected_doc_id, grand_total, fail.at - 1)
         [] OTHER -> Propagate(written, docs, selected_doc_id, grand_total, Len(docs))

\* the store after the writes of the Save Evaluation handler, up to the failing one
StoreAfterSave(st, docs, selected_doc_id, own, grand_total, fail) ==
    LET written == [st EXCEPT ![selected_doc_id] = SetMerge(@, own)]
    IN CASE fail.kind = "own_write" -> st
         [] fail.kind = "sibling_write" -> Propagate(written, docs, selected_doc_id, grand_total, fail.at - 1)
         [] OTHER -> Propagate(written, docs, selected_doc_id, grand_total, Len(docs))

\* one script run with "Save Evaluation" pressed, for the selected roll and test
SaveEvaluation ==
    /\ student_map.loaded
    /\ result.status = "idle"
    /\ saves < MaxSaves
    /\ saves' = saves + 1
    /\ UNCHANGED <<question_banks, student_map, sess, score_in, scored, qid_in, scale_out>>
    /\ \E selected_roll \in DOMAIN student_map.map :
       \E docs_for_student \in {student_map.map[selected_roll].docs} :
       \E manual_meta \in {ManualMeta(docs_for_student)} :
       \E selected_test \in DOMAIN manual_meta :
       \E selected_doc_id \in {manual_meta[selected_test]} :
       \E qids \in {ShortQids(question_banks[selected_test])} :
       \E fail \in Fails(docs_for_student, selected_doc_id) :
        /\ question_banks[selected_test] # <<>>
        /\ IF fail.kind = "prefetch"
           THEN /\ store' = store
                /\ result' = [IdleResult EXCEPT !.status = "error", !.roll = selected_roll,
                                 !.test = selected_test, !.doc_id = selected_doc_id, !.fail = fail]
           ELSE \E doc_data_map \in {[d \in DocIdsOf(docs_for_student) |-> ToDict(store, d)]} :
                \E saved_text_marks \in {DictGet(doc_data_map[selected_doc_id].Evaluation, "text_marks", EmptyMap)} :
                \E picks \in Picks(qids) :
                \E marks_given \in {MarksGiven(qids, saved_text_marks, picks)} :
                \E text_total_current \in {TextTotalCurrent(qids, marks_given)} :
                \E auto_failed \in ReadFailures(docs_for_student) :
                \E doc_scores \in {AutoScores(question_banks, docs_for_student,
                                      [d \in DocIdsOf(docs_for_student) |->
                                          IF d \in auto_failed THEN EmptyData ELSE ToDict(store, d)])} :
                \E grand_total \in {GrandTotal(docs_for_student, doc_scores, doc_data_map,
                                               selected_test, text_total_current)} :
                \E own \in {OwnRecord(marks_given, text_total_current, doc_scores[selected_doc_id], grand_total)} :
                   /\ store' = StoreAfterSave(store, docs_for_student, selected_doc_id, own, grand_total, fail)
                   /\ result' = [status |-> IF fail.kind = "none" THEN "success" ELSE "error",
                                 roll |-> selected_roll, test |-> selected_test,
                                 doc_id |-> selected_doc_id, fail |-> fail,
                                 auto_failed |-> auto_failed, saved_text_marks |-> saved_text_marks,
                                 grand_total |-> grand_total]

\* st.experimental_rerun() after a save, or the next interaction after an error
Rerun ==
    /\ result.status # "idle"
    /\ result' = IdleResult
    /\ UNCHANGED <<question_banks, store, student_map, saves, sess, score_in, scored, qid_in, scale_out>>

Next == AddDoc \/ LoadStudentMap \/ SaveEvaluation \/ Rerun

Spec == Init /\ [][Next]_vars

\* ------------------------------------------------------------------------
\* Properties of the Save Evaluation run
\* ------------------------------------------------------------------------
\* the sum of f over the set S
RECURSIVE SumOver(_, _)
SumOver(f, S) == IF S = {} THEN 0
                 ELSE LET x == CHOOSE y \in S : TRUE IN f[x] + SumOver(f, S \ {x})

\* a script run with the button pressed takes place in this step
SaveStep == result.status = "idle" /\ result'.status # "idle"

\* ... and reports success
SaveDone == SaveStep /\ result'.status = "success"

\* ... and its write of the selected document took place
SaveWritten == SaveStep /\ result'.fail.kind \notin {"prefetch", "own_write"}

DocsOfRoll(st, roll) == {d \in DocIds : st[d].exists /\ st[d].Roll = roll}

PersistedFinal(st, d) == DictGet(st[d].Evaluation, "final_total", 0)

\* C1: after a save for student S has completed, every document of S stores
\* a grand_total equal to the sum of the final_total persisted on S's
\* documents (0 for a document without one).
C1_GrandTotalIsSumOfPersistedFinals ==
    [][SaveDone =>
        \A d \in DocsOfRoll(store', result'.roll) :
            /\ "grand_total" \in DOMAIN store'[d].Evaluation
            /\ store'[d].Evaluation.grand_total =
                   SumOver([e \in DocIds |-> PersistedFinal(store', e)], DocsOfRoll(store', result'.roll))]_vars

\* C3: the grand_total a save of T writes is T's new final_total plus the
\* last-persisted final_total of every other document of the student
\* (0 for a document without one).
C3_GrandTotalFromPersistedFinals ==
    [][SaveWritten =>
        LET T == result'.doc_id
            others == DocsOfRoll(store, result'.roll) \ {T}
        IN store'[T].Evaluation.grand_total =
               store'[T].Evaluation.final_total + SumOver([e \in DocIds |-> PersistedFinal(store, e)], others)]_vars

SameExceptGrandTotal(a, b) ==
    /\ a.exists = b.exists /\ a.Roll = b.Roll /\ a.Section = b.Section /\ a.Responses = b.Responses
    /\ DOMAIN a.Evaluation \ {"grand_total"} = DOMAIN b.Evaluation \ {"grand_total"}
    /\ \A f \in DOMAIN a.Evaluation \ {"grand_total"} : a.Evaluation[f] = b.Evaluation[f]

\* C4: a save of T changes nothing but Evaluation.grand_total on the other
\* documents of the student, and leaves the documents of other students as
\* they were.
C4_SiblingFrame ==
    [][SaveStep =>
        \A d \in DocIds \ {result'.doc_id} :
            /\ SameExceptGrandTotal(store[d], store'[d])
            /\ store[d].Roll # result'.roll => store'[d] = store[d]]_vars

\* a save of one test has rewritten the grand_total of a sibling that holds
\* its own evaluation, while another student's document exists
C4_Witness ==
    /\ result.status = "success"
    /\ \E d \in DocIds \ {result.doc_id} :
          /\ store[d].Roll = result.roll
          /\ {"final_total", "text_marks", "grand_total"} \subseteq DOMAIN store[d].Evaluation
          /\ store[d].Evaluation.grand_total = result.grand_total
          /\ store[d].Evaluation.grand_total # store[d].Evaluation.final_total
    /\ \E e \in DocIds : store[e].exists /\ store[e].Roll # result.roll

\* C5: when the write of the selected document fails, nothing is written
\* and success is not reported; success is reported only with the selected
\* document's record written.
C5_OwnWriteFailureAborts ==
    [][SaveStep =>
        /\ result'.fail.kind = "own_write" => (store' = store /\ result'.status = "error")
        /\ result'.status = "success" =>
              /\ result'.fail.kind # "own_write"
              /\ {"final_total", "text_marks", "grand_total"} \subseteq DOMAIN store'[result'.doc_id].Evaluation
              /\ store'[result'.doc_id].Evaluation.grand_total = result'.grand_total]_vars

\* the write of the selected document failed in a save for a student with
\* an evaluated sibling, whose grand_total differs from the one computed
C5_Witness ==
    /\ result.status = "error"
    /\ result.fail.kind = "own_write"
    /\ \E d \in DocIds \ {result.doc_id} :
          /\ d \in DocIdsOf(student_map.map[result.roll].docs)
          /\ "grand_total" \in DOMAIN store[d].Evaluation
          /\ store[d].Evaluation.grand_total # result.grand_total

\* the documents other than the selected one whose read failed in the run
FailedSiblingReads(res, docs) ==
    (res.auto_failed \cup (IF res.fail.kind = "prefetch" THEN {docs[res.fail.at][2]} ELSE {}))
        \ {res.doc_id}

\* C6: when the read of a sibling fails, at the pre-fetch or at the re-read
\* of the auto scores, and no write fails, the save still completes and the
\* sibling adds 0 to the grand_total.
C6_SiblingReadFailureTolerated ==
    [][SaveStep =>
        LET docs == student_map.map[result'.roll].docs
            T == result'.doc_id
            failed == FailedSiblingReads(result', docs)
            read == DocIdsOf(docs) \ (failed \cup {T})
        IN (failed # {} /\ result'.fail.kind \in {"none", "prefetch"}) =>
              /\ result'.status = "success"
              /\ store'[T].Evaluation.grand_total =
                     store'[T].Evaluation.final_total
                     + SumOver([e \in read |->
                                  calc_mcq(question_banks[store[e].Section], store[e].Responses)
                                  + calc_likert(question_banks[store[e].Section], store[e].Responses)
                                  + DictGet(store[e].Evaluation, "text_total", 0)], read)]_vars

\* C7: a successful save for a student leaves the grand_total it computed on
\* every document the student has in the store at that time.
C7_GrandTotalOnAllDocuments ==
    [][SaveDone =>
        \A d \in DocsOfRoll(store', result'.roll) :
            /\ "grand_total" \in DOMAIN store'[d].Evaluation
            /\ store'[d].Evaluation.grand_total = result'.grand_total]_vars

\* C8: the marks a save writes into text_marks, one per short question of
\* the saved test, are all on the question's scale, whatever was stored.
C8_MarksOnScale ==
    [][SaveWritten =>
        LET T == result'.doc_id
            qids == SeqRange(ShortQids(question_banks[result'.test]))
            old == DictGet(store[T].Evaluation, "text_marks", EmptyMap)
            new == store'[T].Evaluation.text_marks
        IN /\ qids \subseteq DOMAIN new
           /\ \A q \in qids : new[q] \in SeqRange(get_text_scale(q))
           /\ \A q \in DOMAIN new \ qids : q \in DOMAIN old /\ new[q] = old[q]]_vars

\* a save has replaced the stored mark 4 of "Q13" by a mark on its scale
C8_Witness ==
    /\ result.status = "success"
    /\ Q13 \in DOMAIN result.saved_text_marks
    /\ result.saved_text_marks[Q13] = 4
    /\ store[result.doc_id].Evaluation.text_marks[Q13] \in {0, 1, 2, 3}
    /\ store[result.doc_id].Evaluation.text_total = store[result.doc_id].Evaluation.text_marks[Q13]

\* ------------------------------------------------------------------------
\* The scorers on their own: calc_mcq and calc_likert applied to the
\* responses of one document as responses are added and taken away
\* ------------------------------------------------------------------------
Q9 == <<"Q", "9">>

ScoreAlphabet == {"A", " ", "5"}

RECURSIVE StringsUpTo(_)
StringsUpTo(n) ==
    IF n = 0 THEN {<<>>}
    ELSE LET shorter == StringsUpTo(n - 1)
         IN shorter \cup {Append(s, c) : s \in shorter, c \in ScoreAlphabet}

\* the values a response may carry: texts, integers, None
ScoreValues == {StrV(s) : s \in StringsUpTo(MaxStrLen)} \cup {IntV(0), IntV(3), IntV(6)} \cup {NoneV}

\* responses to a question of the bank or to one that is not in it; a
\* response may lack its "Response" key
ScoreResponses ==
    {Resp(q, v) : q \in {Q1, Q2, Q9}, v \in ScoreValues}
    \cup {[k \in {"QuestionID"} |-> StrV(q)] : q \in {Q1, Q2, Q9}}

\* question banks: none loaded; a key found in the second probed column with
\* blanks around it, and a repeated identifier; a numeric key
ScoreBanks ==
    { <<>>,
      << Row(Q1, TMcq, [c \in {"Answer", "Correct"} |-> IF c = "Answer" THEN NaNV ELSE StrV(<<" ", "A">>)]),
         Row(Q1, TLikert, EmptyMap),
         Row(Q2, TLikert, EmptyMap) >>,
      << Row(Q1, TShort, EmptyMap),
         Row(Q2, TMcq, [c \in {"Correct", "Ans"} |-> IF c = "Ans" THEN StrV(<<"A">>) ELSE IntV(5)]) >> }

InitScore ==
    /\ question_banks = LoadedBanks
    /\ store = [d \in DocIds |-> EmptyData]
    /\ student_map = NotLoaded
    /\ result = IdleResult
    /\ saves = 0
    /\ sess = [s \in Sessions |-> IdleSession]
    /\ \E df \in ScoreBanks : score_in = [df |-> df, responses |-> <<>>]
    /\ scored = Scores(<<>>, <<>>)
    /\ qid_in = <<>>
    /\ scale_out = get_text_scale(<<>>)

\* the document gains a response and is scored again
ScoreWithResponse ==
    /\ Len(score_in.responses) < MaxResp
    /\ \E r \in ScoreResponses :
          /\ score_in' = [score_in EXCEPT !.responses = Append(@, r)]
          /\ scored' = Scores(score_in.df, Append(score_in.responses, r))
    /\ UNCHANGED <<question_banks, store, student_map, result, saves, sess, qid_in, scale_out>>

RemoveAt(s, i) == SubSeq(s, 1, i - 1) \o SubSeq(s, i + 1, Len(s))

\* the document loses a response and is scored again
ScoreWithoutResponse ==
    /\ \E i \in 1..Len(score_in.responses) :
          /\ score_in' = [score_in EXCEPT !.responses = RemoveAt(@, i)]
          /\ scored' = Scores(score_in.df, RemoveAt(score_in.responses, i))
    /\ UNCHANGED <<question_banks, store, student_map, result, saves, sess, qid_in, scale_out>>

NextScore == ScoreWithResponse \/ ScoreWithoutResponse

SpecScore == InitScore /\ [][NextScore]_vars

\* ------------------------------------------------------------------------
\* Properties of the scorers
\* ------------------------------------------------------------------------
\* the response's question as text, and the rows of the bank that carry it
AskedQid(r) == PyStr(DictGet(r, "QuestionID", NoneV))

InIndex(df, r) == \E i \in 1..Len(df) : PyStr(df[i].QuestionID) = AskedQid(r)

\* the first row of the bank for the response's question
KeyRow(df, r) ==
    df[CHOOSE i \in 1..Len(df) :
          /\ PyStr(df[i].QuestionID) = AskedQid(r)
          /\ \A j \in 1..(i - 1) : PyStr(df[j].QuestionID) # AskedQid(r)]

\* the columns of a row that hold a correct answer, and the one probed first
KeyColumns(row) == {i \in 1..Len(AnswerColumns) :
                       AnswerColumns[i] \in DOMAIN row.ans /\ row.ans[AnswerColumns[i]].t # "nan"}

KeyText(row) == PyStr(row.ans[AnswerColumns[CHOOSE i \in KeyColumns(row) : \A j \in KeyColumns(row) : i <= j]])

SubmittedText(r) == PyStr(DictGet(r, "Response", StrV(<<>>)))

IsMcqResponse(df, r) == InIndex(df, r) /\ Lower(KeyRow(df, r).Type) = TMcq /\ KeyColumns(KeyRow(df, r)) # {}

ExactMatch(df, r) == IsMcqResponse(df, r) /\ SubmittedText(r) = KeyText(KeyRow(df, r))

TrimmedMatch(df, r) == IsMcqResponse(df, r) /\ Strip(SubmittedText(r)) = Strip(KeyText(KeyRow(df, r)))

\* C10 as stated: calc_mcq counts the responses to multiple-choice questions
\* of the index whose submitted value equals the correct answer exactly.
C10_CountsExactMatches ==
    scored.mcq = Cardinality({i \in 1..Len(score_in.responses) : ExactMatch(score_in.df, score_in.responses[i])})

\* C10 as amended: calc_mcq counts the responses to multiple-choice questions
\* of the index whose submitted value, as text with the blanks around it
\* removed, equals the correct answer with the blanks around it removed; a
\* response that is no such match, added or removed, leaves the count alone.
C10_CountsTrimmedMatches ==
    /\ [](scored.mcq = Cardinality({i \in 1..Len(score_in.responses) :
                                       TrimmedMatch(score_in.df, score_in.responses[i])}))
    /\ [][/\ \A i \in 1..Len(score_in.responses) :
                (score_in'.responses = RemoveAt(score_in.responses, i)
                    /\ ~TrimmedMatch(score_in.df, score_in.responses[i])) => scored'.mcq = scored.mcq
          /\ (Len(score_in'.responses) = Len(score_in.responses) + 1
                /\ ~TrimmedMatch(score_in.df, score_in'.responses[Len(score_in'.responses)]))
                 => scored'.mcq = scored.mcq]_vars

\* one response matches only once the blanks are removed, the other is to a
\* question that is not multiple-choice or not in the index: one credit
C10_Witness ==
    /\ Len(score_in.responses) = 2
    /\ \E i, j \in 1..2 :
          /\ TrimmedMatch(score_in.df, score_in.responses[i])
          /\ ~ExactMatch(score_in.df, score_in.responses[i])
          /\ ~IsMcqResponse(score_in.df, score_in.responses[j])
    /\ scored.mcq = 1

IsLikertResponse(df, r) == InIndex(df, r) /\ Lower(KeyRow(df, r).Type) = TLikert

SubmittedInt(r) == PyInt(DictGet(r, "Response", IntV(0)))

\* 1..5 give 0..4; below 1 gives 0, above 5 gives 4
LikertTable(v) == CASE v <= 1 -> 0
                    [] v = 2 -> 1
                    [] v = 3 -> 2
                    [] v = 4 -> 3
                    [] OTHER -> 4

LikertContribution(df, r) ==
    IF SubmittedInt(r).ok /\ IsLikertResponse(df, r) THEN LikertTable(SubmittedInt(r).val) ELSE 0

ConcStores ==
    {[d \in DocIds |->
        IF d \in present
        THEN [exists |-> TRUE, Roll |-> DocUniverse[d].Roll, Section |-> DocUniverse[d].Section,
              Responses |-> CHOOSE r \in SubmittedResponses(DocUniverse[d].Section) : TRUE,
              Evaluation |-> EmptyMap]
        ELSE EmptyData] :
     present \in {P \in SUBSET DocIds : {1, 3} \subseteq P /\ Cardinality(P) <= MaxDocs}}

InitConc ==
    /\ question_banks = LoadedBanks
    /\ store \in ConcStores
    /\ student_map = [loaded |-> TRUE, map |-> load_student_map(store)]
    /\ result = IdleResult
    /\ saves = 0
    /\ sess = [s \in Sessions |-> IdleSession]
    /\ score_in = NoScoreInput
    /\ scored = Scores(<<>>, <<>>)
    /\ qid_in = <<>>
    /\ scale_out = get_text_scale(<<>>)

With(m, k, v) == [x \in DOMAIN m \cup {k} |-> IF x = k THEN v ELSE m[x]]

\* the next position of the propagation loop, from i on, that is not the
\* selected document; 0 when there is none
NextSibling(docs, selected_doc_id, i) ==
    LET rest == {j \in i..Len(docs) : docs[j][2] # selected_doc_id}
    IN IF rest = {} THEN 0 ELSE CHOOSE j \in rest : \A k \in rest : j <= k

\* a session presses "Save Evaluation": its script run starts
Open(s) ==
    /\ sess[s].pc = "idle"
    /\ \E selected_roll \in DOMAIN student_map.map :
       \E docs_for_student \in {student_map.map[selected_roll].docs} :
       \E selected_test \in DOMAIN ManualMeta(docs_for_student) :
       \E picks \in Picks(ShortQids(question_banks[selected_test])) :
          /\ question_banks[selected_test] # <<>>
          /\ sess' = [sess EXCEPT ![s] = [IdleSession EXCEPT
                         !.pc = "prefetch", !.roll = selected_roll, !.test = selected_test,
                         !.doc_id = ManualMeta(docs_for_student)[selected_test],
                         !.docs = docs_for_student, !.i = 1, !.picks = picks]]
    /\ UNCHANGED <<question_banks, store, student_map, result, saves, score_in, scored, qid_in, scale_out>>

\* one get() of the pre-fetch loop
Prefetch(s) ==
    /\ sess[s].pc = "prefetch"
    /\ LET me == sess[s]
           d == me.docs[me.i][2]
       IN sess' = [sess EXCEPT ![s] = [me EXCEPT
                      !.doc_data_map = With(@, d, ToDict(store, d)),
                      !.pc = IF me.i = Len(me.docs) THEN "reread" ELSE "prefetch",
                      !.i = IF me.i = Len(me.docs) THEN 1 ELSE me.i + 1]]
    /\ UNCHANGED <<question_banks, store, student_map, result, saves, score_in, scored, qid_in, scale_out>>

\* one get() of compute_auto_scores_for_roll; after the last one the marks
\* of the form, the auto scores and the grand_total are put together
Reread(s) ==
    /\ sess[s].pc = "reread"
    /\ \E me \in {sess[s]} :
       \E reread \in {With(me.reread, me.docs[me.i][2], ToDict(store, me.docs[me.i][2]))} :
          IF me.i < Len(me.docs)
          THEN sess' = [sess EXCEPT ![s] = [me EXCEPT !.reread = reread, !.i = me.i + 1]]
          ELSE \E qids \in {ShortQids(question_banks[me.test])} :
               \E marks_given \in {MarksGiven(qids,
                                      DictGet(me.doc_data_map[me.doc_id].Evaluation, "text_marks", EmptyMap),
                                      me.picks)} :
               \E text_total_current \in {TextTotalCurrent(qids, marks_given)} :
               \E doc_scores \in {AutoScores(question_banks, me.docs, reread)} :
               \E grand_total \in {GrandTotal(me.docs, doc_scores, me.doc_data_map, me.test, text_total_current)} :
                  sess' = [sess EXCEPT ![s] = [me EXCEPT
                              !.reread = reread, !.pc = "write_own", !.i = 1,
                              !.grand_total = grand_total,
                              !.final_total = doc_scores[me.doc_id].mcq + doc_scores[me.doc_id].likert
                                              + text_total_current,
                              !.own = OwnRecord(marks_given, text_total_current,
                                                doc_scores[me.doc_id], grand_total)]]
    /\ UNCHANGED <<question_banks, store, student_map, result, saves, score_in, scored, qid_in, scale_out>>

\* the set() of the selected document's record
WriteOwn(s) ==
    /\ sess[s].pc = "write_own"
    /\ LET me == sess[s]
           first == NextSibling(me.docs, me.doc_id, 1)
       IN /\ store' = [store EXCEPT ![me.doc_id] = SetMerge(@, me.own)]
          /\ sess' = [sess EXCEPT ![s] = [me EXCEPT
                         !.pc = IF first = 0 THEN "done" ELSE "propagate", !.i = first]]
    /\ UNCHANGED <<question_banks, student_map, result, saves, score_in, scored, qid_in, scale_out>>

\* one set() of the propagation loop; after the last one success is shown
PropagateOne(s) ==
    /\ sess[s].pc = "propagate"
    /\ LET me == sess[s]
           d == me.docs[me.i][2]
           following == NextSibling(me.docs, me.doc_id, me.i + 1)
       IN /\ store' = [store EXCEPT ![d] = SetMerge(@, GrandOnly(me.grand_total))]
          /\ sess' = [sess EXCEPT ![s] = [me EXCEPT
                         !.pc = IF following = 0 THEN "done" ELSE "propagate", !.i = following]]
    /\ UNCHANGED <<question_banks, student_map, result, saves, score_in, scored, qid_in, scale_out>>

NextConc == \E s \in Sessions : Open(s) \/ Prefetch(s) \/ Reread(s) \/ WriteOwn(s) \/ PropagateOne(s)

SpecConc == InitConc /\ [][NextConc]_vars

AutoScoreOf(st, d) == calc_mcq(question_banks[st[d].Section], st[d].Responses)
                      + calc_likert(question_banks[st[d].Section], st[d].Responses)

\* C2: once two unserialized saves of two different tests of one student
\* have both completed, every document of the student stores a grand_total
\* that counts the final_total of both tests.
C2_BothUpdatesCounted ==
    LET a == sess["s1"]
        b == sess["s2"]
    IN (a.pc = "done" /\ b.pc = "done" /\ a.roll = b.roll /\ a.test # b.test) =>
          \A d \in DocsOfRoll(store, a.roll) :
              /\ "grand_total" \in DOMAIN store[d].Evaluation
              /\ store[d].Evaluation.grand_total =
                     store[a.doc_id].Evaluation.final_total + store[b.doc_id].Evaluation.final_total
                     + SumOver([e \in DocsOfRoll(store, a.roll) |-> AutoScoreOf(store, e)],
                               DocsOfRoll(store, a.roll) \ {a.doc_id, b.doc_id})

\* ------------------------------------------------------------------------
\* The award scale on its own: get_text_scale applied to identifiers that
\* are written out and cut back one character at a time
\* ------------------------------------------------------------------------
QidAlphabet == {"Q", "q", "A", " ", "-", "1", "2", "3"}

InitScale ==
    /\ question_banks = LoadedBanks
    /\ store = [d \in DocIds |-> EmptyData]
    /\ student_map = NotLoaded
    /\ result = IdleResult
    /\ saves = 0
    /\ sess = [s \in Sessions |-> IdleSession]
    /\ score_in = NoScoreInput
    /\ scored = Scores(<<>>, <<>>)
    /\ qid_in = <<>>
    /\ scale_out = get_text_scale(<<>>)

\* the scale of the identifier with one more character
ScaleOfLonger ==
    /\ Len(qid_in) < MaxQidLen
    /\ \E c \in QidAlphabet :
          /\ qid_in' = Append(qid_in, c)
          /\ scale_out' = get_text_scale(Append(qid_in, c))
    /\ UNCHANGED <<question_banks, store, student_map, result, saves, sess, score_in, scored>>

\* the scale of the identifier without its last character
ScaleOfShorter ==
    /\ qid_in # <<>>
    /\ qid_in' = SubSeq(qid_in, 1, Len(qid_in) - 1)
    /\ scale_out' = get_text_scale(SubSeq(qid_in, 1, Len(qid_in) - 1))
    /\ UNCHANGED <<question_banks, store, student_map, result, saves, sess, score_in, scored>>

NextScale == ScaleOfLonger \/ ScaleOfShorter

SpecScale == InitScale /\ [][NextScale]_vars

\* the identifier without its leading characters that are no digits
RECURSIVE DropNonDigitPrefix(_)
DropNonDigitPrefix(s) == IF s # <<>> /\ ~IsDigit(Head(s)) THEN DropNonDigitPrefix(Tail(s)) ELSE s

\* the text denotes the natural number n: digits, with blanks around them
\* and a "+" before them allowed
Denotes(text, n) ==
    LET b == Strip(text)
        body == IF b # <<>> /\ Head(b) = "+" THEN Tail(b) ELSE b
    IN AllDigits(body) /\ DigitsVal(body) = n

\* the scale that goes with the text left of an identifier
ScaleDenotedBy(text) ==
    IF \E n \in FOUR_MARK_QIDS : Denotes(text, n) THEN <<0, 1, 2, 3>>
    ELSE IF \E n \in THREE_MARK_QIDS : Denotes(text, n) THEN <<0, 1, 2>>
    ELSE <<0, 1>>

AfterMarker(qid) ==
    LET t == Strip(qid)
    IN IF t # <<>> /\ t[1] \in {"q", "Q"} THEN Tail(t) ELSE t

====
